---------------------------- MODULE Spec2Model ----------------------------
(***************************************************************************)
(* Model of the image format conversion engine (converter.py), the file   *)
(* metadata helpers (file_processor.py, config.py) and the HTTP task      *)
(* layer that drives the engine on a background thread (app.py,           *)
(* api/index.py).                                                          *)
(*                                                                         *)
(* Two specifications share the engine actions:                            *)
(*   Spec      ConversionWorker (converter.py) driving ConversionEngine    *)
(*   TaskSpec  start_conversion / get_status / cancel_conversion of app.py *)
(***************************************************************************)
EXTENDS Integers, Sequences, FiniteSets, TLC

(***************************************************************************)
(* Bounds of the model.                                                    *)
(***************************************************************************)
\* longest batch handed to ConversionWorker
MaxFiles == 2
\* longest batch handed to the HTTP start_conversion
MaxTaskFiles == 1
\* largest page / frame count of a multi-page source
MaxPages == 2
\* longest list handed to _group_files_by_format on its own
MaxGroupFiles == 3
\* how often format_type is read from one FileInfo
MaxReads == 2
\* how far below MIN_DPI and above MAX_DPI the dpi values handed to
\* validate_dpi on its own reach
DpiMargin == 3
\* most paths of one drop or one file dialog
MaxDrop == 1
\* most conversions started in one session of the desktop UI
MaxThreads == 2

(***************************************************************************)
(* config.py                                                               *)
(***************************************************************************)
MIN_DPI == 300
MAX_DPI == 600
DEFAULT_DPI == 300

\* The dpi of an HTTP request (data.get('dpi', 300)): any integer the
\* client sends; one below, one inside and one above the declared range.
RequestDpis == {72, DEFAULT_DPI, 1200}

Formats == {"pdf", "jpg", "png", "tiff", "svg"}

\* target_format is whatever string the caller passes (app.py reads it from
\* the request body): a declared format, or "unknown" for any other string.
Targets == Formats \cup {"unknown"}

ALL_EXTENSIONS == {".pdf", ".jpg", ".jpeg", ".png", ".tif", ".tiff", ".svg"}

CONVERSION_COMBINATIONS ==
    { <<"pdf", "jpg">>, <<"pdf", "png">>, <<"pdf", "tiff">>,
      <<"jpg", "pdf">>, <<"jpg", "png">>, <<"jpg", "tiff">>, <<"jpg", "svg">>,
      <<"png", "pdf">>, <<"png", "jpg">>, <<"png", "tiff">>, <<"png", "svg">>,
      <<"tiff", "pdf">>, <<"tiff", "jpg">>, <<"tiff", "png">>, <<"tiff", "svg">>,
      <<"svg", "pdf">>, <<"svg", "jpg">>, <<"svg", "png">>, <<"svg", "tiff">> }

(***************************************************************************)
(* file_processor.py: FileInfo                                             *)
(***************************************************************************)
\* FileInfo.format_type: the format is decided by the lower-cased extension
format_type(ext) ==
    IF ext \in {".pdf"} THEN "pdf"
    ELSE IF ext \in {".jpg", ".jpeg"} THEN "jpg"
    ELSE IF ext \in {".png"} THEN "png"
    ELSE IF ext \in {".tif", ".tiff"} THEN "tiff"
    ELSE IF ext \in {".svg"} THEN "svg"
    ELSE "unknown"

\* Base names and extensions of the files of a batch.  ".bmp" stands for
\* any extension outside ALL_EXTENSIONS.
BaseNames == {"a", "b"}
BatchExts == {".pdf", ".jpg", ".png", ".tif", ".svg", ".bmp"}

\* Only PDF and TIFF sources can hold more than one page / frame.
PagesOf(ext) ==
    IF format_type(ext) \in {"pdf", "tiff"} THEN 1..MaxPages ELSE {1}

\* A source file.  base+ext is FileInfo.name; pages is the page count the
\* decoder reports.  failAt = 0: the file is sound.  failAt = 1: opening,
\* decoding or (for a flat file) writing the file raises.  failAt = k > 1:
\* encoding or writing the k-th page raises after k-1 pages went through.
\* Files of unknown format are never opened.
FileRecs ==
    { [base |-> b, ext |-> e, pages |-> p, failAt |-> k] :
        b \in BaseNames, e \in BatchExts, p \in 1..MaxPages, k \in 0..MaxPages }

ValidFile(f) ==
    /\ f.pages \in PagesOf(f.ext)
    /\ f.failAt <= f.pages
    /\ (format_type(f.ext) = "unknown" => f.failAt = 0)

SourceFiles == { f \in FileRecs : ValidFile(f) }

\* All batches of at most n source files, in submission order.
RECURSIVE Batches(_)
Batches(n) ==
    IF n = 0 THEN { <<>> }
    ELSE LET shorter == Batches(n - 1)
         IN  shorter \cup { Append(s, f) : s \in { t \in shorter : Len(t) = n - 1 },
                                           f \in SourceFiles }

\* FileInfo.path; the position in the batch tells apart two uploads of the
\* same name.
PathOf(f) == <<f.base, f.ext>>

\* The failures entry path "" of the merging handlers.
NoPath == <<>>

(***************************************************************************)
(* converter.py: dispatch                                                  *)
(***************************************************************************)
\* The ladder as it stands without its SVG-source branch.
HandlerOfNoSvgSource(src, dst) ==
    IF src = "pdf" THEN
        IF dst = "jpg" THEN "_pdf_to_jpg"
        ELSE IF dst = "png" THEN "_pdf_to_png"
        ELSE IF dst = "tiff" THEN "_pdf_to_tiff"
        ELSE "none"
    ELSE IF src = "jpg" THEN
        IF dst = "pdf" THEN "_jpg_to_pdf"
        ELSE IF dst = "png" THEN "_jpg_to_png"
        ELSE IF dst = "tiff" THEN "_jpg_to_tiff"
        ELSE IF dst = "svg" THEN "_jpg_to_svg"
        ELSE "none"
    ELSE IF src = "png" THEN
        IF dst = "pdf" THEN "_png_to_pdf"
        ELSE IF dst = "jpg" THEN "_png_to_jpg"
        ELSE IF dst = "tiff" THEN "_png_to_tiff"
        ELSE IF dst = "svg" THEN "_png_to_svg"
        ELSE "none"
    ELSE IF src = "tiff" THEN
        IF dst = "pdf" THEN "_tiff_to_pdf"
        ELSE IF dst = "jpg" THEN "_tiff_to_jpg"
        ELSE IF dst = "png" THEN "_tiff_to_png"
        ELSE IF dst = "svg" THEN "_tiff_to_svg"
        ELSE "none"
    ELSE "none"

\* ConversionEngine._convert_by_source_format: the if/elif ladder.  The
\* result is the handler's name, or "none" where the ladder falls through
\* to `return [], []`.
HandlerOf(src, dst) ==
    IF src = "pdf" THEN
        IF dst = "jpg" THEN "_pdf_to_jpg"
        ELSE IF dst = "png" THEN "_pdf_to_png"
        ELSE IF dst = "tiff" THEN "_pdf_to_tiff"
        ELSE "none"
    ELSE IF src = "jpg" THEN
        IF dst = "pdf" THEN "_jpg_to_pdf"
        ELSE IF dst = "png" THEN "_jpg_to_png"
        ELSE IF dst = "tiff" THEN "_jpg_to_tiff"
        ELSE IF dst = "svg" THEN "_jpg_to_svg"
        ELSE "none"
    ELSE IF src = "png" THEN
        IF dst = "pdf" THEN "_png_to_pdf"
        ELSE IF dst = "jpg" THEN "_png_to_jpg"
        ELSE IF dst = "tiff" THEN "_png_to_tiff"
        ELSE IF dst = "svg" THEN "_png_to_svg"
        ELSE "none"
    ELSE IF src = "tiff" THEN
        IF dst = "pdf" THEN "_tiff_to_pdf"
        ELSE IF dst = "jpg" THEN "_tiff_to_jpg"
        ELSE IF dst = "png" THEN "_tiff_to_png"
        ELSE IF dst = "svg" THEN "_tiff_to_svg"
        ELSE "none"
    ELSE IF src = "svg" THEN
        IF dst = "pdf" THEN "_svg_to_pdf"
        ELSE IF dst = "jpg" THEN "_svg_to_jpg"
        ELSE IF dst = "png" THEN "_svg_to_png"
        ELSE IF dst = "tiff" THEN "_svg_to_tiff"
        ELSE "none"
    ELSE "none"

\* The shape of each handler's body.
\*   pdfpages   one output per page, progress after every page
\*   tiffpages  one output per frame of a multi-frame TIFF
\*   flat       one output per file
\*   merge      img2pdf over the source files themselves
\*   tiffmerge  frames staged as _temp_page_{n}.jpg, then img2pdf
\*   svgmerge   placeholder: an empty PDF
KindOf(h) ==
    IF h \in {"_pdf_to_jpg", "_pdf_to_png", "_pdf_to_tiff"} THEN "pdfpages"
    ELSE IF h \in {"_tiff_to_jpg", "_tiff_to_png"} THEN "tiffpages"
    ELSE IF h \in {"_jpg_to_pdf", "_png_to_pdf"} THEN "merge"
    ELSE IF h = "_tiff_to_pdf" THEN "tiffmerge"
    ELSE IF h = "_svg_to_pdf" THEN "svgmerge"
    ELSE IF h = "none" THEN "none"
    ELSE "flat"

\* The extension of the files a per-file handler writes.  The ->svg
\* handlers write a PNG (output_path.replace('.svg', '.png')).
OutExt(h) ==
    IF h \in {"_pdf_to_jpg", "_png_to_jpg", "_tiff_to_jpg", "_svg_to_jpg"} THEN ".jpg"
    ELSE IF h \in {"_pdf_to_tiff", "_jpg_to_tiff", "_png_to_tiff", "_svg_to_tiff"} THEN ".tif"
    ELSE IF h \in {"_jpg_to_pdf", "_png_to_pdf", "_tiff_to_pdf", "_svg_to_pdf"} THEN ".pdf"
    ELSE ".png"

\* Pages named from the last one down.
PageOutDescending(f, page, h) == <<f.base, f.pages + 1 - page, OutExt(h)>>

\* Output paths.  page = 0 is the unnumbered name {base}{ext}.
PageOut(f, page, h) == <<f.base, page, OutExt(h)>>
FlatOut(f, h) == <<f.base, 0, OutExt(h)>>
MergedOut(ts) == <<"output", ts, ".pdf">>
TempPage(index) == <<"_temp_page", index, ".jpg">>
IsTempPage(path) == Len(path) = 3 /\ path[1] = "_temp_page"

(***************************************************************************)
(* converter.py: grouping and ordering                                     *)
(***************************************************************************)
\* The files of one format, latest first.
RECURSIVE SelectFmtReversed(_, _)
SelectFmtReversed(fs, fmt) ==
    IF fs = <<>> THEN <<>>
    ELSE IF format_type(Head(fs).ext) = fmt
         THEN SelectFmtReversed(Tail(fs), fmt) \o <<Head(fs)>>
         ELSE SelectFmtReversed(Tail(fs), fmt)

RECURSIVE SelectFmt(_, _)
SelectFmt(fs, fmt) ==
    IF fs = <<>> THEN <<>>
    ELSE IF format_type(Head(fs).ext) = fmt
         THEN <<Head(fs)>> \o SelectFmt(Tail(fs), fmt)
         ELSE SelectFmt(Tail(fs), fmt)

\* The keys of the dict in insertion order: formats by first occurrence.
RECURSIVE FormatOrder(_, _)
FormatOrder(fs, seen) ==
    IF fs = <<>> THEN <<>>
    ELSE LET fmt == format_type(Head(fs).ext)
         IN  IF fmt \in seen THEN FormatOrder(Tail(fs), seen)
             ELSE <<fmt>> \o FormatOrder(Tail(fs), seen \cup {fmt})

\* ConversionEngine._group_files_by_format, as the sequence of the dict's
\* values in iteration order.
_group_files_by_format(fs) ==
    LET order == FormatOrder(fs, {})
    IN  [i \in 1..Len(order) |-> SelectFmt(fs, order[i])]

\* Order of FileInfo.name strings ("a.jpg" < "b.jpg", ".jpeg" < ".jpg").
BaseRank(b) == IF b = "a" THEN 1 ELSE 2
ExtRank(e) ==
    IF e = ".bmp" THEN 1
    ELSE IF e = ".jpeg" THEN 2
    ELSE IF e = ".jpg" THEN 3
    ELSE IF e = ".pdf" THEN 4
    ELSE IF e = ".png" THEN 5
    ELSE IF e = ".svg" THEN 6
    ELSE IF e = ".tif" THEN 7
    ELSE 8
NameLess(f, g) ==
    \/ BaseRank(f.base) < BaseRank(g.base)
    \/ BaseRank(f.base) = BaseRank(g.base) /\ ExtRank(f.ext) < ExtRank(g.ext)

\* Stable insertion of f into a sequence sorted by name.
RECURSIVE InsertByName(_, _)
InsertByName(sorted, f) ==
    IF sorted = <<>> THEN <<f>>
    ELSE IF NameLess(f, Head(sorted)) THEN <<f>> \o sorted
    ELSE <<Head(sorted)>> \o InsertByName(Tail(sorted), f)

\* The files as they were submitted, not sorted.
SubmissionOrder(fs) == fs

\* sorted(files, key=lambda x: x.name): stable.
RECURSIVE SortedByName(_)
SortedByName(fs) ==
    IF fs = <<>> THEN <<>>
    ELSE InsertByName(SortedByName(SubSeq(fs, 1, Len(fs) - 1)), fs[Len(fs)])

\* The percent of the unit after the one meant.
PercentOfNext(i, total) == ((i + 1) * 100) \div total

\* int(i / total * 100) for 0 <= i <= total, total > 0.
Percent(i, total) == (i * 100) \div total

(***************************************************************************)
(* State                                                                   *)
(***************************************************************************)
VARIABLES
    files,            \* the batch: FileInfo records in submission order
    target,           \* target_format
    cbMode,           \* progress_callback: "none" (None), "noop", "task"
    mergeFault,       \* the final encode / write of a merged PDF raises
    depsOk,           \* HAS_PDF2IMAGE and HAS_IMG2PDF
    cancel_event,     \* the threading.Event the engine polls
    pc,               \* position of the thread that runs the conversion
    groups,           \* convert: the groups still to be dispatched
    gi,               \* convert: index of the current group
    hname,            \* the handler the current group was dispatched to
    hfiles,           \* handler: its files argument (sorted_files in merges)
    fi,               \* handler: index of the file the loop is at
    pgi,              \* handler: page the page loop is at
    image_paths,      \* merging handlers: image_paths / temp_files
    h_success,        \* handler: success_files
    h_failed,         \* handler: failed_files
    success_files,    \* convert: success_files
    failed_files,     \* convert: failed_files
    disk,             \* paths present in the output directory
    clock,            \* last datetime.now() second used in an output name
    calls,            \* percent of every progress_callback call so far
    task,             \* app.py ConversionTask
    poll,             \* get_status: the response being assembled
    pollpc,           \* get_status: position of the polling request
    taskWriters,      \* history: threads that assigned a field of task
    cancelRequested,  \* history: cancellation was requested while convert ran
    cancelAtCall,     \* history: cancel_event was set when convert was called
    fop,              \* file_processor.py: the call being made, or "none"
    farg,             \* file_processor.py: its argument
    fres,             \* file_processor.py: its return value
    dpi,              \* the dpi argument of convert
    raster_dpi,       \* history: every dpi handed to convert_from_path
    window,           \* gui.py: the fields and widgets of MainWindow
    qthreads          \* gui.py: the ConversionThreads started so far

inputVars == <<files, target, cbMode, mergeFault, depsOk, dpi>>
loopVars == <<groups, gi, hname, hfiles, fi, pgi, image_paths>>
resultVars == <<h_success, h_failed, success_files, failed_files>>
taskVars == <<task, taskWriters>>
pollVars == <<poll, pollpc>>
histVars == <<cancelRequested, cancelAtCall>>
frontVars == <<fop, farg, fres>>
guiVars == <<window, qthreads>>

vars == <<files, target, cbMode, mergeFault, depsOk, cancel_event, pc,
          groups, gi, hname, hfiles, fi, pgi, image_paths,
          h_success, h_failed, success_files, failed_files,
          disk, clock, calls, task, poll, pollpc, taskWriters,
          cancelRequested, cancelAtCall, fop, farg, fres, dpi, raster_dpi,
          window, qthreads>>

\* engine.convert has been entered and has not returned yet.
InProgress == pc \in {"dispatch", "file", "page", "merge", "mergefile", "groupret"}

\* The position of a file in the batch is carried along as id.
WithIds(b) ==
    [i \in 1..Len(b) |->
        [id |-> i, base |-> b[i].base, ext |-> b[i].ext,
         pages |-> b[i].pages, failAt |-> b[i].failAt]]

\* An entry of a success list: the output path and, as history, the ids of
\* the source files whose pages went into it.
SuccEntry(path, srcs) == [path |-> path, src |-> srcs]
\* An entry of a failures list: (path, str(e)) and, as history, the id of
\* the source file it was recorded against (0 for the path "").
FailEntry(path, id) == [path |-> path, msg |-> "error", src |-> id]

\* app.py ConversionTask.__init__
NewTask ==
    [status |-> "pending", progress |-> 0, message |-> "Initializing...",
     output_files |-> <<>>, error |-> ""]

EngineInit ==
    /\ cancel_event = FALSE
    /\ groups = <<>>
    /\ gi = 0
    /\ hname = "none"
    /\ hfiles = <<>>
    /\ fi = 0
    /\ pgi = 0
    /\ image_paths = <<>>
    /\ h_success = <<>>
    /\ h_failed = <<>>
    /\ success_files = <<>>
    /\ failed_files = <<>>
    /\ disk = {}
    /\ clock = 0
    /\ calls = <<>>
    /\ task = NewTask
    /\ poll = [status |-> "none", output_files |-> <<>>]
    /\ pollpc = "idle"
    /\ taskWriters = {}
    /\ cancelRequested = FALSE
    /\ cancelAtCall = FALSE
    /\ raster_dpi = {}

\* No call of file_processor.py is under way.
FrontIdle ==
    /\ fop = "none"
    /\ farg = <<>>
    /\ fres = <<>>

\* No MainWindow exists (gui.py is not running).
GuiIdle ==
    /\ window = <<>>
    /\ qthreads = <<>>

\* ConversionWorker.__init__: the engine is constructed (the dependencies
\* are present, or no worker exists), the event is clear, the callback is
\* None until set_progress_callback is called.
Init ==
    /\ \E b \in Batches(MaxFiles) : files = WithIds(b)
    /\ target \in Targets
    /\ cbMode \in {"none", "noop"}
    /\ mergeFault \in BOOLEAN
    /\ mergeFault => target = "pdf"
    /\ depsOk = TRUE
    /\ dpi = DEFAULT_DPI
    /\ pc = "idle"
    /\ EngineInit
    /\ FrontIdle
    /\ GuiIdle

\* app.py start_conversion up to thread.start(): the task is registered and
\* the worker thread is spawned with a non-empty file_infos.
TaskInit ==
    /\ \E b \in Batches(MaxTaskFiles) : b # <<>> /\ files = WithIds(b)
    /\ target \in Targets
    /\ cbMode = "task"
    /\ mergeFault \in BOOLEAN
    /\ mergeFault => target = "pdf"
    /\ depsOk \in BOOLEAN
    /\ dpi \in RequestDpis
    /\ pc = "spawned"
    /\ EngineInit
    /\ FrontIdle
    /\ GuiIdle

(***************************************************************************)
(* progress_callback                                                       *)
(***************************************************************************)
\* progress_callback is None: calling it raises TypeError.
CbRaises == cbMode = "none"

\* app.py progress_callback: the closure of convert_worker.
TaskProgress(msg, pct) ==
    IF cbMode = "task"
    THEN /\ task' = [task EXCEPT !.progress = pct, !.message = msg,
                                 !.status = "processing"]
         /\ taskWriters' = taskWriters \cup {"worker"}
    ELSE UNCHANGED taskVars

\* convert without its guard: list(source_formats)[0] of an empty set
\* raises IndexError.
ConvertEntryUnguarded(fs) == IF fs = <<>> THEN "raised" ELSE "dispatch"

\* "if not files: return success_files, failed_files": where convert goes
\* from its first statements.
ConvertEntry(fs) == IF fs = <<>> THEN "returned" ELSE "dispatch"

(***************************************************************************)
(* ConversionEngine.convert                                                *)
(***************************************************************************)
\* convert is entered: the empty batch returns at once, otherwise the
\* groups are formed (one group when all files share a format).
Convert ==
    /\ pc = "idle"
    /\ cancelAtCall' = cancel_event
    /\ IF files = <<>>
       THEN /\ pc' = ConvertEntry(files)
            /\ UNCHANGED <<groups, gi>>
       ELSE /\ groups' = IF Cardinality({format_type(files[i].ext) : i \in 1..Len(files)}) > 1
                         THEN _group_files_by_format(files)
                         ELSE <<files>>
            /\ gi' = 1
            /\ pc' = ConvertEntry(files)
    /\ UNCHANGED <<guiVars, inputVars, frontVars, raster_dpi, cancel_event, hname, hfiles, fi, pgi, image_paths,
                   resultVars, disk, clock, calls, taskVars, pollVars,
                   cancelRequested>>

\* A dispatcher whose fall-through ends the whole conversion.
EnterHandlerOrStop(h) ==
    IF KindOf(h) = "none" THEN "returned"
    ELSE IF KindOf(h) \in {"merge", "tiffmerge", "svgmerge"} THEN "merge"
    ELSE "file"

\* Where control goes once the ladder of _convert_by_source_format has
\* picked a branch: into the handler's body, or, when no branch matches,
\* straight to "return [], []" and so back to convert.
EnterHandler(h) ==
    IF KindOf(h) = "none" THEN "groupret"
    ELSE IF KindOf(h) \in {"merge", "tiffmerge", "svgmerge"} THEN "merge"
    ELSE "file"

\* A handler that does not look at the event.
EventIgnored == FALSE

\* "if cancel_event and cancel_event.is_set(): break" at the top of the file
\* loop and of the page loop of a handler.
UnitCancelled == cancel_event

\* A loop over the groups that never breaks.
GroupsNeverBreak == FALSE

\* "if cancel_event and cancel_event.is_set(): break" of convert, after the
\* results of a group were appended.
GroupCancelled == cancel_event

\* An except clause that does not catch: the exception leaves the handler
\* and convert.
Uncaught(next) == "raised"

\* "except Exception as e:" around the body of a unit (per-file and staging
\* loops) or of a whole merging handler: the error is caught and control
\* goes on at next, inside the handler.
CaughtAt(next) == next

\* A file loop that a failure ends: the remaining files are skipped.
AfterErrorBreak(i, n) == n + 1

\* The index of the next iteration after the except clause of a handler's
\* file loop recorded a failure: the try/except is inside the loop, so the
\* loop goes on with the next file of the n files.
AfterError(i, n) == i + 1

\* A merging handler whose last report stops short of 100.
MergeProgressShort(stage) == IF stage = "start" THEN 0 ELSE 99

\* The percent a merging handler reports: 0 before any work, 100 after the
\* output was written.
MergeProgress(stage) == IF stage = "start" THEN 0 ELSE 100

\* _convert_by_source_format: pick the handler for the group and enter it.
Dispatch ==
    /\ pc = "dispatch"
    /\ LET h == HandlerOf(format_type(groups[gi][1].ext), target)
       IN  /\ hname' = h
           /\ hfiles' = groups[gi]
           /\ pc' = EnterHandler(h)
    /\ fi' = 1
    /\ pgi' = 0
    /\ image_paths' = <<>>
    /\ h_success' = <<>>
    /\ h_failed' = <<>>
    /\ UNCHANGED <<guiVars, inputVars, frontVars, raster_dpi, cancel_event, groups, gi, success_files, failed_files,
                   disk, clock, calls, taskVars, pollVars, histVars>>

\* A per-file handler leaves its loop: the files are exhausted or the
\* cancellation check at the top of the loop breaks.
HandlerReturn ==
    /\ pc = "file"
    /\ fi > Len(hfiles) \/ UnitCancelled
    /\ pc' = "groupret"
    /\ UNCHANGED <<guiVars, inputVars, frontVars, raster_dpi, cancel_event, loopVars, resultVars, disk, clock,
                   calls, taskVars, pollVars, histVars>>

\* One iteration of a one-output-per-file handler (_jpg_to_png, ...).
FlatFile ==
    /\ pc = "file"
    /\ KindOf(hname) = "flat"
    /\ fi <= Len(hfiles)
    /\ ~UnitCancelled
    /\ LET f == hfiles[fi]
           out == FlatOut(f, hname)
       IN  IF CbRaises
           THEN /\ h_failed' = Append(h_failed, FailEntry(PathOf(f), f.id))
                /\ fi' = AfterError(fi, Len(hfiles))
                /\ pc' = CaughtAt("file")
                /\ UNCHANGED <<h_success, disk, calls, taskVars>>
           ELSE /\ calls' = Append(calls, Percent(fi - 1, Len(hfiles)))
                /\ TaskProgress("converting", Percent(fi - 1, Len(hfiles)))
                /\ IF f.failAt = 1
                   THEN /\ h_failed' = Append(h_failed, FailEntry(PathOf(f), f.id))
                        /\ fi' = AfterError(fi, Len(hfiles))
                        /\ pc' = CaughtAt("file")
                        /\ UNCHANGED <<h_success, disk>>
                   ELSE /\ disk' = disk \cup {out}
                        /\ h_success' = Append(h_success, SuccEntry(out, {f.id}))
                        /\ fi' = fi + 1
                        /\ UNCHANGED <<pc, h_failed>>
    /\ UNCHANGED <<guiVars, inputVars, frontVars, raster_dpi, cancel_event, groups, gi, hname, hfiles, pgi,
                   image_paths, success_files, failed_files, clock, pollVars,
                   histVars>>

\* The head of one iteration of a per-page handler: the callback and the
\* decode of the source (_pdf_to_*: convert_from_path, _tiff_to_jpg/png:
\* Image.open).  A single-frame TIFF is written here as {base}{ext}.
PagedFile ==
    /\ pc = "file"
    /\ KindOf(hname) \in {"pdfpages", "tiffpages"}
    /\ fi <= Len(hfiles)
    /\ ~UnitCancelled
    /\ raster_dpi' = IF ~CbRaises /\ hname \in {"_pdf_to_jpg", "_pdf_to_png"}
                     THEN raster_dpi \cup {dpi}
                     ELSE raster_dpi
    /\ LET f == hfiles[fi]
           pct == IF KindOf(hname) = "pdfpages" THEN 0
                  ELSE Percent(fi - 1, Len(hfiles))
           out == FlatOut(f, hname)
       IN  IF CbRaises
           THEN /\ h_failed' = Append(h_failed, FailEntry(PathOf(f), f.id))
                /\ fi' = AfterError(fi, Len(hfiles))
                /\ pc' = CaughtAt("file")
                /\ UNCHANGED <<pgi, h_success, disk, calls, taskVars>>
           ELSE /\ calls' = Append(calls, pct)
                /\ TaskProgress("converting", pct)
                /\ IF f.failAt = 1
                   THEN /\ h_failed' = Append(h_failed, FailEntry(PathOf(f), f.id))
                        /\ fi' = AfterError(fi, Len(hfiles))
                        /\ pc' = CaughtAt("file")
                        /\ UNCHANGED <<pgi, h_success, disk>>
                   ELSE IF KindOf(hname) = "tiffpages" /\ f.pages = 1
                   THEN /\ disk' = disk \cup {out}
                        /\ h_success' = Append(h_success, SuccEntry(out, {f.id}))
                        /\ fi' = fi + 1
                        /\ UNCHANGED <<pc, pgi, h_failed>>
                   ELSE /\ pc' = "page"
                        /\ pgi' = 1
                        /\ UNCHANGED <<fi, h_success, h_failed, disk>>
    /\ UNCHANGED <<guiVars, inputVars, frontVars, cancel_event, groups, gi, hname, hfiles,
                   image_paths, success_files, failed_files, clock, pollVars,
                   histVars>>

\* One iteration of the page loop of a per-page handler.
PageStep ==
    /\ pc = "page"
    /\ LET f == hfiles[fi]
           out == PageOut(f, pgi, hname)
           pct == Percent(pgi, f.pages)
       IN  IF UnitCancelled
           THEN /\ pc' = "file"
                /\ fi' = fi + 1
                /\ UNCHANGED <<pgi, h_success, h_failed, disk, calls, taskVars>>
           ELSE IF f.failAt = pgi
           THEN /\ h_failed' = Append(h_failed, FailEntry(PathOf(f), f.id))
                /\ pc' = CaughtAt("file")
                /\ fi' = AfterError(fi, Len(hfiles))
                /\ UNCHANGED <<pgi, h_success, disk, calls, taskVars>>
           ELSE /\ disk' = disk \cup {out}
                /\ h_success' = Append(h_success, SuccEntry(out, {f.id}))
                /\ IF KindOf(hname) = "pdfpages"
                   THEN /\ calls' = Append(calls, pct)
                        /\ TaskProgress("converting", pct)
                   ELSE UNCHANGED <<calls, taskVars>>
                /\ IF pgi = f.pages
                   THEN pc' = "file" /\ fi' = fi + 1 /\ UNCHANGED pgi
                   ELSE pgi' = pgi + 1 /\ UNCHANGED <<pc, fi>>
                /\ UNCHANGED h_failed
    /\ UNCHANGED <<guiVars, inputVars, frontVars, raster_dpi, cancel_event, groups, gi, hname, hfiles,
                   image_paths, success_files, failed_files, clock, pollVars,
                   histVars>>

(***************************************************************************)
(* Merging handlers: _jpg_to_pdf, _png_to_pdf, _tiff_to_pdf, _svg_to_pdf   *)
(***************************************************************************)
\* A page index that starts again at 0 for every source file.
PageIndexPerFile(staged, k) == k - 1

\* f"_temp_page_{len(image_paths)}.jpg": the index of the k-th page staged
\* from one file, when `staged` holds the pages staged before that file;
\* image_paths grows by one with every page saved.
PageIndex(staged, k) == Len(staged) + k - 1

\* The pages the staging loop of _tiff_to_pdf writes for one file: all of
\* them for a sound file, those before the failing one otherwise.  The
\* index in the name is len(image_paths) at the time of the write.
StagedPages(f, staged) ==
    LET n == IF f.failAt = 0 THEN f.pages ELSE f.failAt - 1
    IN  [k \in 1..n |-> [path |-> TempPage(PageIndex(staged, k)), src |-> f.id]]

SeqRange(sq) == { sq[i] : i \in 1..Len(sq) }

\* The head of a merging handler: progress 0, then the files in name order
\* (_svg_to_pdf keeps the submission order).  _jpg_to_pdf and _png_to_pdf
\* merge the source files themselves.
MergeStart ==
    /\ pc = "merge"
    /\ IF CbRaises
       THEN /\ h_failed' = Append(h_failed, FailEntry(NoPath, 0))
            /\ pc' = CaughtAt("groupret")
            /\ UNCHANGED <<hfiles, fi, image_paths, calls, taskVars>>
       ELSE LET sorted == IF KindOf(hname) = "svgmerge" THEN hfiles
                          ELSE SortedByName(hfiles)
            IN  /\ calls' = Append(calls, MergeProgress("start"))
                /\ TaskProgress("merging", MergeProgress("start"))
                /\ hfiles' = sorted
                /\ image_paths' =
                       IF KindOf(hname) = "merge"
                       THEN [i \in 1..Len(sorted) |->
                                [path |-> PathOf(sorted[i]), src |-> sorted[i].id]]
                       ELSE <<>>
                /\ fi' = IF KindOf(hname) = "merge" THEN Len(sorted) + 1 ELSE 1
                /\ pc' = "mergefile"
                /\ UNCHANGED h_failed
    /\ UNCHANGED <<guiVars, inputVars, frontVars, raster_dpi, cancel_event, groups, gi, hname, pgi, h_success,
                   success_files, failed_files, disk, clock, pollVars, histVars>>

\* One iteration of the staging loop of _tiff_to_pdf (inner try/except per
\* file, no cancellation check) or of _svg_to_pdf (cancellation check, the
\* temp name is only recorded, nothing is written).
MergeFile ==
    /\ pc = "mergefile"
    /\ fi <= Len(hfiles)
    /\ ~(KindOf(hname) = "svgmerge" /\ UnitCancelled)
    /\ LET f == hfiles[fi]
       IN  IF KindOf(hname) = "tiffmerge"
           THEN LET pages == StagedPages(f, image_paths)
                IN  /\ image_paths' = image_paths \o pages
                    /\ disk' = disk \cup { pg.path : pg \in SeqRange(pages) }
                    /\ h_failed' = IF f.failAt = 0 THEN h_failed
                                   ELSE Append(h_failed, FailEntry(PathOf(f), f.id))
                    /\ pc' = IF f.failAt = 0 THEN "mergefile"
                             ELSE CaughtAt("mergefile")
           ELSE /\ image_paths' = Append(image_paths,
                                         [path |-> <<"temp_", f.base, ".png">>, src |-> f.id])
                /\ UNCHANGED <<pc, disk, h_failed>>
    /\ fi' = fi + 1
    /\ UNCHANGED <<guiVars, inputVars, frontVars, raster_dpi, cancel_event, groups, gi, hname, hfiles, pgi,
                   h_success, success_files, failed_files, clock, calls,
                   taskVars, pollVars, histVars>>

\* The tail of a merging handler: encode and write output_{timestamp}.pdf,
\* delete the staged pages, progress 100.  An exception of the encode or
\* the write reaches the outer except, which records ("", str(e)).
MergeFinish ==
    /\ pc = "mergefile"
    /\ fi > Len(hfiles) \/ (KindOf(hname) = "svgmerge" /\ UnitCancelled)
    /\ LET raises == \/ mergeFault
                     \/ /\ KindOf(hname) = "merge"
                        /\ \E i \in 1..Len(hfiles) : hfiles[i].failAt # 0
           temps == IF KindOf(hname) = "merge" THEN {}
                    ELSE { pg.path : pg \in SeqRange(image_paths) }
           srcs == { pg.src : pg \in SeqRange(image_paths) }
       IN  IF image_paths = <<>>
           THEN /\ calls' = Append(calls, MergeProgress("end"))
                /\ TaskProgress("done", MergeProgress("end"))
                /\ pc' = "groupret"
                /\ UNCHANGED <<h_success, h_failed, disk, clock>>
           ELSE IF raises
           THEN /\ h_failed' = Append(h_failed, FailEntry(NoPath, 0))
                /\ pc' = CaughtAt("groupret")
                /\ UNCHANGED <<h_success, disk, clock, calls, taskVars>>
           ELSE \E ts \in (IF clock = 0 THEN {1} ELSE {clock, clock + 1}) :
                /\ clock' = ts
                /\ disk' = (disk \cup {MergedOut(ts)}) \ temps
                /\ h_success' = Append(h_success, SuccEntry(MergedOut(ts), srcs))
                /\ calls' = Append(calls, MergeProgress("end"))
                /\ TaskProgress("done", MergeProgress("end"))
                /\ pc' = "groupret"
                /\ UNCHANGED h_failed
    /\ UNCHANGED <<guiVars, inputVars, frontVars, raster_dpi, cancel_event, loopVars, success_files, failed_files,
                   pollVars, histVars>>

(***************************************************************************)
(* ConversionEngine.convert: after a handler returned                      *)
(***************************************************************************)
\* The handler's lists are appended to the engine's; in a mixed batch the
\* loop over the groups breaks when the event is set.
GroupReturn ==
    /\ pc = "groupret"
    /\ success_files' = success_files \o h_success
    /\ failed_files' = failed_files \o h_failed
    /\ IF gi < Len(groups) /\ ~GroupCancelled
       THEN gi' = gi + 1 /\ pc' = "dispatch"
       ELSE pc' = "returned" /\ UNCHANGED gi
    /\ UNCHANGED <<guiVars, inputVars, frontVars, raster_dpi, cancel_event, groups, hname, hfiles, fi, pgi,
                   image_paths, h_success, h_failed, disk, clock, calls,
                   taskVars, pollVars, histVars>>

(***************************************************************************)
(* converter.py: ConversionWorker                                          *)
(***************************************************************************)
\* ConversionWorker.cancel, callable from any thread at any time.
WorkerCancel ==
    /\ pc # "returned"
    /\ ~cancel_event
    /\ cancel_event' = TRUE
    /\ cancelRequested' = (cancelRequested \/ InProgress)
    /\ UNCHANGED <<guiVars, inputVars, frontVars, raster_dpi, pc, loopVars, resultVars, disk, clock, calls,
                   taskVars, pollVars, cancelAtCall>>

(***************************************************************************)
(* app.py: convert_worker, get_status, cancel_conversion                   *)
(***************************************************************************)
\* A checking constructor that lets every engine through.
DependenciesDeferred(ok) == "idle"

\* ConversionEngine.__init__ -> _check_dependencies: returns normally when
\* both codecs were imported, raises ImportError (the constructing thread
\* dies before convert) otherwise.
_check_dependencies(ok) == IF ok THEN "idle" ELSE "dead"

\* convert_worker up to the call of engine.convert: ConversionEngine() is
\* constructed outside the try block, so an ImportError of
\* _check_dependencies ends the thread; then a fresh Event is created.
WorkerStart ==
    /\ pc = "spawned"
    /\ pc' = _check_dependencies(depsOk)
    /\ IF depsOk
       THEN cancel_event' = FALSE
       ELSE UNCHANGED cancel_event
    /\ UNCHANGED <<guiVars, inputVars, frontVars, raster_dpi, loopVars, resultVars, disk, clock, calls,
                   taskVars, pollVars, histVars>>

\* A worker that marks the task completed before it stores the outputs.
StatusBeforeOutput(field) ==
    IF field = "status"
    THEN [at |-> "returned", to |-> "wrote_output"]
    ELSE [at |-> "wrote_output", to |-> "done"]

\* The order of the two assignments that follow engine.convert in
\* convert_worker: task.output_files first, task.status after it; for each
\* the position of the worker before and after the assignment.
WorkerWrite(field) ==
    IF field = "output_files"
    THEN [at |-> "returned", to |-> "wrote_output"]
    ELSE [at |-> "wrote_output", to |-> "done"]

\* task.output_files = success_files
TaskWriteOutput ==
    /\ cbMode = "task"
    /\ pc = WorkerWrite("output_files").at
    /\ task' = [task EXCEPT !.output_files =
                    [i \in 1..Len(success_files) |-> success_files[i].path]]
    /\ taskWriters' = taskWriters \cup {"worker"}
    /\ pc' = WorkerWrite("output_files").to
    /\ UNCHANGED <<guiVars, inputVars, frontVars, raster_dpi, cancel_event, loopVars, resultVars, disk, clock,
                   calls, pollVars, histVars>>

\* task.status = 'completed'; task.message = ...
TaskWriteCompleted ==
    /\ pc = WorkerWrite("status").at
    /\ task' = [task EXCEPT !.status = "completed", !.message = "completed"]
    /\ taskWriters' = taskWriters \cup {"worker"}
    /\ pc' = WorkerWrite("status").to
    /\ UNCHANGED <<guiVars, inputVars, frontVars, raster_dpi, cancel_event, loopVars, resultVars, disk, clock,
                   calls, pollVars, histVars>>

\* cancel_conversion, on a request thread: the task is marked cancelled.
CancelConversion ==
    /\ task' = [task EXCEPT !.status = "cancelled", !.message = "cancelled by user"]
    /\ taskWriters' = taskWriters \cup {"request"}
    /\ cancelRequested' = (cancelRequested \/ InProgress)
    /\ UNCHANGED <<guiVars, inputVars, frontVars, raster_dpi, cancel_event, pc, loopVars, resultVars, disk,
                   clock, calls, pollVars, cancelAtCall>>

\* get_status, on a request thread: the response dict is built field by
\* field, status first ...
PollReadStatus ==
    /\ pollpc = "idle"
    /\ poll' = [poll EXCEPT !.status = task.status]
    /\ pollpc' = "status_read"
    /\ UNCHANGED <<guiVars, inputVars, frontVars, raster_dpi, cancel_event, pc, loopVars, resultVars, disk,
                   clock, calls, taskVars, histVars>>

\* ... output_files after it.
PollReadOutput ==
    /\ pollpc = "status_read"
    /\ poll' = [poll EXCEPT !.output_files = task.output_files]
    /\ pollpc' = "idle"
    /\ UNCHANGED <<guiVars, inputVars, frontVars, raster_dpi, cancel_event, pc, loopVars, resultVars, disk,
                   clock, calls, taskVars, histVars>>

(***************************************************************************)
(* Specifications                                                          *)
(***************************************************************************)
EngineNext ==
    \/ Convert
    \/ Dispatch
    \/ HandlerReturn
    \/ FlatFile
    \/ PagedFile
    \/ PageStep
    \/ MergeStart
    \/ MergeFile
    \/ MergeFinish
    \/ GroupReturn

Next ==
    \/ EngineNext
    \/ WorkerCancel

Spec == Init /\ [][Next]_vars

TaskNext ==
    \/ WorkerStart
    \/ EngineNext
    \/ TaskWriteOutput
    \/ TaskWriteCompleted
    \/ CancelConversion
    \/ PollReadStatus
    \/ PollReadOutput

TaskSpec == TaskInit /\ [][TaskNext]_vars

(***************************************************************************)
(* The functions of file_processor.py and _group_files_by_format, each     *)
(* called on its own                                                       *)
(***************************************************************************)
\* File names as the front end meets them: every declared extension and an
\* undeclared one; page counts play no part here.
FrontFiles ==
    { [base |-> b, ext |-> e, pages |-> 1, failAt |-> 0] :
        b \in BaseNames, e \in ALL_EXTENSIONS \cup {".bmp"} }

RECURSIVE FrontBatches(_)
FrontBatches(n) ==
    IF n = 0 THEN { <<>> }
    ELSE LET shorter == FrontBatches(n - 1)
         IN  shorter \cup { Append(s, f) : s \in { t \in shorter : Len(t) = n - 1 },
                                           f \in FrontFiles }

\* The letters of the extensions, lower case and upper case.
Letters ==
    { <<"p", "P">>, <<"d", "D">>, <<"f", "F">>, <<"j", "J">>, <<"g", "G">>,
      <<"e", "E">>, <<"n", "N">>, <<"t", "T">>, <<"i", "I">>, <<"s", "S">>,
      <<"v", "V">>, <<"b", "B">>, <<"m", "M">> }

\* str.lower() on one character, then on a string (a sequence of characters).
LowerChar(c) ==
    IF \E l \in Letters : l[2] = c
    THEN (CHOOSE l \in Letters : l[2] = c)[1]
    ELSE c

Lower(chars) == [i \in DOMAIN chars |-> LowerChar(chars[i])]

RECURSIVE Join(_)
Join(chars) ==
    IF chars = <<>> THEN "" ELSE Head(chars) \o Join(Tail(chars))

\* The extension kept as it was spelled in the path.
ExtAsGiven(chars) == Join(chars)

\* FileInfo.__init__: self.ext = os.path.splitext(file_path)[1].lower()
\* validate_file:     ext = os.path.splitext(file_path)[1].lower()
FileExt(chars) == Join(Lower(chars))

\* The extensions a path can end in, as os.path.splitext returns them,
\* spelled in lower case: the supported ones, an unsupported one, and none.
CanonExts ==
    { <<".", "p", "d", "f">>, <<".", "j", "p", "g">>, <<".", "j", "p", "e", "g">>,
      <<".", "p", "n", "g">>, <<".", "t", "i", "f">>, <<".", "t", "i", "f", "f">>,
      <<".", "s", "v", "g">>, <<".", "b", "m", "p">>, <<>> }

\* Every upper / lower case spelling of an extension.
UpperChar(c) ==
    IF \E l \in Letters : l[1] = c
    THEN (CHOOSE l \in Letters : l[1] = c)[2]
    ELSE c

RECURSIVE Spellings(_)
Spellings(chars) ==
    IF chars = <<>> THEN { <<>> }
    ELSE { <<c>> \o rest : c \in {Head(chars), UpperChar(Head(chars))},
                           rest \in Spellings(Tail(chars)) }

\* What validate_file finds at the path: nothing, a directory, a file
\* larger than MAX_FILE_SIZE_MB, or a file within the limit.
PathStates == {"missing", "dir", "big", "ok"}

\* FileProcessor.validate_file(file_path), first component of the result
validate_file(path) ==
    IF path.state = "missing" THEN FALSE
    ELSE IF path.state = "dir" THEN FALSE
    ELSE IF FileExt(path.raw) \notin ALL_EXTENSIONS THEN FALSE
    ELSE IF path.state = "big" THEN FALSE
    ELSE TRUE

\* FileProcessor.can_convert(source_format, target_format)
can_convert(source_format, target_format) ==
    IF source_format = target_format THEN FALSE
    ELSE /\ source_format \in {"pdf", "jpg", "tiff"}
         /\ target_format \in {"pdf", "jpg", "tiff"}

\* FileProcessor.get_supported_target_formats(source_format)
get_supported_target_formats(source_format) ==
    LET all_formats == <<"pdf", "jpg", "tiff">>
        Differs(f) == f # source_format
    IN  SelectSeq(all_formats, Differs)

\* A validate_dpi that also reports the two limits as corrected.
validate_dpi_strict(d) ==
    IF d <= MIN_DPI THEN <<MIN_DPI, TRUE>>
    ELSE IF d >= MAX_DPI THEN <<MAX_DPI, TRUE>>
    ELSE <<d, FALSE>>

\* FileProcessor.validate_dpi(dpi): (corrected_dpi, was_modified)
validate_dpi(d) ==
    IF d < MIN_DPI THEN <<MIN_DPI, TRUE>>
    ELSE IF d > MAX_DPI THEN <<MAX_DPI, TRUE>>
    ELSE <<d, FALSE>>

\* The integers handed to validate_dpi: around both limits, zero and a
\* negative value.
DpiInputs ==
    ((MIN_DPI - DpiMargin)..(MIN_DPI + DpiMargin))
        \cup ((MAX_DPI - DpiMargin)..(MAX_DPI + DpiMargin))
        \cup {0, 0 - DpiMargin}

FrontInit ==
    /\ target = "jpg"
    /\ cbMode = "noop"
    /\ mergeFault = FALSE
    /\ depsOk = TRUE
    /\ dpi = DEFAULT_DPI
    /\ pc = "front"
    /\ EngineInit
    /\ GuiIdle
    /\ \/ /\ fop = "group"
          /\ \E b \in FrontBatches(MaxGroupFiles) : files = WithIds(b)
          /\ farg = <<>>
          /\ fres = <<>>
       \/ /\ fop = "path"
          /\ files = <<>>
          /\ \E c \in CanonExts, st \in PathStates :
               \E sp \in Spellings(c) :
                 farg = [canon |-> Join(c), raw |-> sp, state |-> st]
          /\ fres = <<>>
       \/ /\ fop = "pair"
          /\ files = <<>>
          /\ \E s \in Targets, d \in Targets :
               farg = [source_format |-> s, target_format |-> d]
          /\ fres = <<>>
       \/ /\ fop = "dpi"
          /\ files = <<>>
          /\ \E d \in DpiInputs : farg = [dpi |-> d]
          /\ fres = <<>>

\* ConversionEngine._group_files_by_format(files)
GroupFiles ==
    /\ fop = "group"
    /\ groups' = _group_files_by_format(files)
    /\ fop' = "grouped"
    /\ UNCHANGED <<guiVars, inputVars, farg, fres, raster_dpi, cancel_event, pc, gi, hname, hfiles,
                   fi, pgi, image_paths, resultVars, disk, clock, calls,
                   taskVars, pollVars, histVars>>

\* FileInfo(file_path)
NewFileInfo ==
    /\ fop = "path"
    /\ fop' = "info"
    /\ fres' = [ext |-> FileExt(farg.raw), reads |-> <<>>, valid |-> <<>>]
    /\ UNCHANGED <<guiVars, inputVars, farg, raster_dpi, cancel_event, pc, loopVars,
                   resultVars, disk, clock, calls, taskVars, pollVars, histVars>>

\* file_info.format_type, read from a constructed FileInfo
ReadFormatType ==
    /\ fop = "info"
    /\ Len(fres.reads) < MaxReads
    /\ fres' = [fres EXCEPT !.reads = Append(@, format_type(fres.ext))]
    /\ UNCHANGED <<guiVars, inputVars, fop, farg, raster_dpi, cancel_event, pc, loopVars,
                   resultVars, disk, clock, calls, taskVars, pollVars, histVars>>

\* FileProcessor.validate_file(file_path) on the same path
ValidateFile ==
    /\ fop = "info"
    /\ fres.valid = <<>>
    /\ fres' = [fres EXCEPT !.valid = <<validate_file(farg)>>]
    /\ UNCHANGED <<guiVars, inputVars, fop, farg, raster_dpi, cancel_event, pc, loopVars,
                   resultVars, disk, clock, calls, taskVars, pollVars, histVars>>

\* FileProcessor.can_convert and FileProcessor.get_supported_target_formats,
\* asked about one pair of formats
AskCanConvert ==
    /\ fop = "pair"
    /\ fop' = "asked"
    /\ fres' = [can |-> can_convert(farg.source_format, farg.target_format),
                targets |-> get_supported_target_formats(farg.source_format)]
    /\ UNCHANGED <<guiVars, inputVars, farg, raster_dpi, cancel_event, pc, loopVars,
                   resultVars, disk, clock, calls, taskVars, pollVars, histVars>>

\* FileProcessor.validate_dpi(dpi)
ValidateDpi ==
    /\ fop = "dpi"
    /\ fop' = "clamped"
    /\ fres' = <<validate_dpi(farg.dpi)>>
    /\ UNCHANGED <<guiVars, inputVars, farg, raster_dpi, cancel_event, pc, loopVars,
                   resultVars, disk, clock, calls, taskVars, pollVars, histVars>>

\* FileProcessor.validate_dpi applied to the value it returned
ValidateDpiAgain ==
    /\ fop = "clamped"
    /\ fop' = "reclamped"
    /\ fres' = Append(fres, validate_dpi(fres[1][1]))
    /\ UNCHANGED <<guiVars, inputVars, farg, raster_dpi, cancel_event, pc, loopVars,
                   resultVars, disk, clock, calls, taskVars, pollVars, histVars>>

FrontNext ==
    \/ GroupFiles
    \/ ValidateDpi
    \/ ValidateDpiAgain
    \/ AskCanConvert
    \/ NewFileInfo
    \/ ReadFormatType
    \/ ValidateFile

FrontSpec == FrontInit /\ [][FrontNext]_vars

(***************************************************************************)
(* gui.py: MainWindow and ConversionThread                                 *)
(***************************************************************************)
\* The variables gui.py does not touch.
coreVars == <<inputVars, frontVars, raster_dpi, cancel_event, pc, loopVars,
              resultVars, disk, clock, calls, taskVars, pollVars, histVars>>

\* A path the user can drop or pick: name, extension as os.path.splitext
\* returns it, and what validate_file finds there.
GuiPath(b, chars, st) == [base |-> b, ext |-> Join(chars), raw |-> chars, state |-> st]

\* Two JPEG files, a file of an unsupported format and a path that does
\* not exist.  Every file that can be listed is a JPEG, so that convert
\* takes its direct-dispatch branch.
GuiPaths ==
    { GuiPath("a", <<".", "j", "p", "g">>, "ok"),
      GuiPath("b", <<".", "j", "p", "g">>, "ok"),
      GuiPath("b", <<".", "b", "m", "p">>, "ok"),
      GuiPath("b", <<".", "j", "p", "e", "g">>, "missing") }

\* The lists of paths of one drop or one file dialog.
RECURSIVE DropLists(_)
DropLists(n) ==
    IF n = 0 THEN {}
    ELSE LET shorter == DropLists(n - 1)
         IN  { <<q>> : q \in GuiPaths } \cup shorter
                \cup { Append(l, q) : l \in { m \in shorter : Len(m) = n - 1 },
                                      q \in GuiPaths }

\* The dpi values the user can type: below, inside and above the range.
GuiDpiInputs == {MIN_DPI - 1, MIN_DPI, MAX_DPI, MAX_DPI + 1}

\* The target formats the user picks: one served by a merging handler, one
\* by a per-file handler.
GuiTargets == {"pdf", "png"}

\* MainWindow.__init__: no files, every QPushButton enabled but btn_cancel,
\* and _update_source_format has selected the first target format.
NewWindow ==
    [files |-> <<>>, items |-> <<>>,
     btn_start |-> TRUE, btn_cancel |-> FALSE, btn_browse |-> TRUE, btn_clear |-> TRUE,
     source_format |-> "none", target_format |-> "pdf", dpi_value |-> DEFAULT_DPI]

\* An _add_files without its duplicate test.
NeverListed(fs, path) == FALSE

\* any(f.path == path for f in self.files)
AlreadyListed(fs, path) == \E i \in DOMAIN fs : fs[i] = path

\* The loop of _add_files: an invalid path and a path already listed are
\* skipped, any other is appended to self.files and to the list widget.
RECURSIVE AddLoop(_, _)
AddLoop(w, paths) ==
    IF paths = <<>> THEN w
    ELSE LET path == Head(paths)
         IN  IF ~validate_file(path) THEN AddLoop(w, Tail(paths))
             ELSE IF AlreadyListed(w.files, path) THEN AddLoop(w, Tail(paths))
             ELSE AddLoop([w EXCEPT !.files = Append(@, path),
                                    !.items = Append(@, path)],
                          Tail(paths))

\* SUPPORTED_FORMATS in insertion order.
FormatList == <<"pdf", "jpg", "png", "tiff", "svg">>

\* _populate_target_formats: the formats offered as target, and the first.
TargetChoices(src) == SelectSeq(FormatList, LAMBDA fmt : fmt # src)

\* _update_source_format, _populate_target_formats included: the one format
\* of the listed files or automatic detection, and the target combo box is
\* refilled and set to its first entry.
_update_source_format(w) ==
    LET fmts == { format_type(FileExt(w.files[i].raw)) : i \in DOMAIN w.files }
        src == IF Cardinality(fmts) = 1 THEN CHOOSE fmt \in fmts : TRUE ELSE "none"
    IN  [w EXCEPT !.source_format = src, !.target_format = TargetChoices(src)[1]]

\* _update_ui_state
_update_ui_state(w) == [w EXCEPT !.btn_start = (Len(w.files) > 0)]

\* _reset_ui_state
_reset_ui_state(w) ==
    [w EXCEPT !.btn_start = (Len(w.files) > 0), !.btn_cancel = FALSE,
              !.btn_browse = TRUE, !.btn_clear = TRUE]

\* _add_files(file_paths)
_add_files(w, paths) == _update_ui_state(_update_source_format(AddLoop(w, paths)))

\* list.pop(row) and QListWidget.takeItem(row), rows counted from 1.
RemoveAt(seq, row) == SubSeq(seq, 1, row - 1) \o SubSeq(seq, row + 1, Len(seq))

\* ConversionThread.__init__: self.files is the list object of MainWindow,
\* not a copy; files_at_start records, as history, what it held then.
\* (output_dir and dpi are stored too; no step of the thread modelled here
\* reads them.)
NewThread(w) ==
    [target_format |-> w.target_format,
     state |-> "started", kind |-> "none", pos |-> 0, converted |-> <<>>,
     files_at_start |-> w.files]

\* QThread.isRunning(): run has not returned.
IsRunning(t) == t.state \in {"started", "looping"}

GuiInit ==
    /\ files = <<>>
    /\ target = "jpg"
    /\ cbMode = "noop"
    /\ mergeFault = FALSE
    /\ depsOk = TRUE
    /\ dpi = DEFAULT_DPI
    /\ pc = "gui"
    /\ EngineInit
    /\ FrontIdle
    /\ window = NewWindow
    /\ qthreads = <<>>

\* DropListWidget.dropEvent -> files_dropped -> _on_files_dropped: the list
\* widget accepts drops at any time.
FilesDropped ==
    /\ \E paths \in DropLists(MaxDrop) : window' = _add_files(window, paths)
    /\ UNCHANGED <<qthreads, coreVars>>

\* btn_browse clicked -> _browse_files
BrowseFiles ==
    /\ window.btn_browse
    /\ \E paths \in DropLists(MaxDrop) : window' = _add_files(window, paths)
    /\ UNCHANGED <<qthreads, coreVars>>

\* btn_remove clicked -> _remove_selected_files, with a row selected; the
\* button is never disabled.
RemoveSelectedFiles ==
    /\ \E row \in DOMAIN window.items :
         window' = _update_ui_state(_update_source_format(
                       [window EXCEPT !.items = RemoveAt(@, row),
                                      !.files = RemoveAt(@, row)]))
    /\ UNCHANGED <<qthreads, coreVars>>

\* btn_clear clicked -> _clear_file_list
ClearFileList ==
    /\ window.btn_clear
    /\ window' = _update_ui_state(_update_source_format(
                     [window EXCEPT !.items = <<>>, !.files = <<>>]))
    /\ UNCHANGED <<qthreads, coreVars>>

\* target_format_combo changed by the user -> _on_target_format_changed
TargetFormatChanged ==
    /\ \E fmt \in SeqRange(TargetChoices(window.source_format)) \cap GuiTargets :
         window' = [window EXCEPT !.target_format = fmt]
    /\ UNCHANGED <<qthreads, coreVars>>

\* dpi_slider moved -> _on_dpi_slider_changed; the slider ranges over
\* MIN_DPI..MAX_DPI.
DpiSliderChanged ==
    /\ \E value \in {MIN_DPI, MAX_DPI} :
         window' = [window EXCEPT !.dpi_value = validate_dpi(value)[1]]
    /\ UNCHANGED <<qthreads, coreVars>>

\* dpi_input edited -> _on_dpi_input_changed
DpiInputChanged ==
    /\ \E value \in GuiDpiInputs :
         window' = [window EXCEPT !.dpi_value = validate_dpi(value)[1]]
    /\ UNCHANGED <<qthreads, coreVars>>

\* btn_start clicked -> _start_conversion, with files listed and a valid
\* output directory (otherwise _validate_inputs fails and nothing changes).
StartConversion ==
    /\ window.btn_start
    /\ window.files # <<>>
    /\ Len(qthreads) < MaxThreads
    /\ LET w == IF window.target_format = "jpg"
                THEN [window EXCEPT !.dpi_value = validate_dpi(@)[1]]
                ELSE window
       IN  /\ window' = [w EXCEPT !.btn_start = FALSE, !.btn_cancel = TRUE,
                                  !.btn_browse = FALSE, !.btn_clear = FALSE]
           /\ qthreads' = Append(qthreads, NewThread(w))
    /\ UNCHANGED coreVars

\* btn_cancel clicked -> _cancel_conversion: self.conversion_thread, the
\* thread started last, is terminated if it still runs.
GuiCancelConversion ==
    /\ window.btn_cancel
    /\ qthreads' = IF qthreads # <<>> /\ IsRunning(qthreads[Len(qthreads)])
                   THEN [qthreads EXCEPT ![Len(qthreads)].state = "terminated"]
                   ELSE qthreads
    /\ window' = _reset_ui_state(window)
    /\ UNCHANGED coreVars

\* ConversionThread.run up to the handler's loop: convert reads self.files,
\* the list MainWindow still changes.  An empty list and a pair without
\* handler return at once; a merging handler takes its sorted copy and
\* merges it; a per-file handler starts enumerate(files) on the list itself.
ThreadEnter ==
    /\ \E t \in DOMAIN qthreads :
         /\ qthreads[t].state = "started"
         /\ LET fs == window.files
                h == IF fs = <<>> THEN "none"
                     ELSE HandlerOf(format_type(FileExt(fs[1].raw)),
                                    qthreads[t].target_format)
            IN  qthreads' =
                  [qthreads EXCEPT ![t] =
                     IF h = "none"
                     THEN [@ EXCEPT !.state = "emitted"]
                     ELSE IF KindOf(h) = "merge"
                     THEN [@ EXCEPT !.state = "emitted", !.kind = "merge",
                                    !.converted = SortedByName(fs)]
                     ELSE [@ EXCEPT !.state = "looping", !.kind = "flat"]]
    /\ UNCHANGED <<window, coreVars>>

\* One step of `for i, file_info in enumerate(files)` in a per-file
\* handler: the list iterator reads the list as it is now; past its end
\* the handler and convert return and conversion_completed is emitted.
ThreadConvertFile ==
    /\ \E t \in DOMAIN qthreads :
         /\ qthreads[t].state = "looping"
         /\ qthreads' =
              [qthreads EXCEPT ![t] =
                 IF @.pos < Len(window.files)
                 THEN [@ EXCEPT !.pos = @ + 1,
                                !.converted = Append(@, window.files[qthreads[t].pos + 1])]
                 ELSE [@ EXCEPT !.state = "emitted"]]
    /\ UNCHANGED <<window, coreVars>>

\* The queued conversion_completed signal reaches _on_conversion_completed.
ConversionCompleted ==
    /\ \E t \in DOMAIN qthreads :
         /\ qthreads[t].state = "emitted"
         /\ qthreads' = [qthreads EXCEPT ![t].state = "handled"]
    /\ window' = _reset_ui_state(window)
    /\ UNCHANGED coreVars

GuiNext ==
    \/ FilesDropped
    \/ BrowseFiles
    \/ RemoveSelectedFiles
    \/ ClearFileList
    \/ TargetFormatChanged
    \/ DpiSliderChanged
    \/ DpiInputChanged
    \/ StartConversion
    \/ GuiCancelConversion
    \/ ThreadEnter
    \/ ThreadConvertFile
    \/ ConversionCompleted

GuiSpec == GuiInit /\ [][GuiNext]_vars

(***************************************************************************)
(* Properties                                                              *)
(***************************************************************************)
Terminal == {"completed", "failed", "cancelled"}

FailuresOf(i) == { k \in 1..Len(failed_files) : failed_files[k].src = i }
Contributed(i) == \E k \in 1..Len(success_files) : i \in success_files[k].src

\* C1: when convert has returned, no input file has both a failures entry
\* and an output (or a share in a merged output) in successPaths, and no
\* input file has more than one failures entry.
C1_FailedFileHasNoSuccess ==
    pc = "returned" =>
        \A i \in 1..Len(files) :
            /\ Cardinality(FailuresOf(i)) <= 1
            /\ ~(FailuresOf(i) # {} /\ Contributed(i))

RECURSIVE SumPages(_)
SumPages(fs) == IF fs = <<>> THEN 0 ELSE Head(fs).pages + SumPages(Tail(fs))

\* The input units of one group: the whole group for a pair that merges
\* into one PDF, otherwise one unit per page of every file.
GroupUnits(g) ==
    IF <<format_type(g[1].ext), target>> \in CONVERSION_COMBINATIONS /\ target = "pdf"
    THEN 1
    ELSE SumPages(g)

RECURSIVE TotalUnits(_)
TotalUnits(gs) == IF gs = <<>> THEN 0 ELSE GroupUnits(Head(gs)) + TotalUnits(Tail(gs))

\* C2: when the event was never set and convert has returned, the units
\* that produced an entry of successPaths plus the entries of failures
\* add up to the input units of the batch.
C2_UnitsAccounted ==
    (pc = "returned" /\ ~cancel_event) =>
        Len(success_files) + Len(failed_files)
            = TotalUnits(_group_files_by_format(files))

\* C3: when convert has returned (the event never set), every file whose
\* (source, target) pair is not a declared conversion has exactly one
\* failures entry, with a "conversion not supported" reason.
C3_UnsupportedReported ==
    (pc = "returned" /\ ~cancel_event) =>
        \A i \in 1..Len(files) :
            <<format_type(files[i].ext), target>> \notin CONVERSION_COMBINATIONS =>
                /\ Cardinality(FailuresOf(i)) = 1
                /\ \A k \in FailuresOf(i) : failed_files[k].msg = "not supported"

\* C4: when the event was already set at the call of convert (with a
\* callable progress callback), convert returns two empty lists and has
\* written nothing.
C4_CancelledBeforeStart ==
    (pc = "returned" /\ cancelAtCall /\ files # <<>> /\ ~CbRaises) =>
        /\ success_files = <<>>
        /\ failed_files = <<>>
        /\ disk = {}

\* C5: once cancellation was requested for a conversion in progress, the
\* event polled by that conversion's engine is set.
C5_CancelReachesEngine ==
    cancelRequested => cancel_event

LegalStatusStep ==
    \/ task'.status = task.status
    \/ task.status = "pending" /\ task'.status = "processing"
    \/ task.status = "processing" /\ task'.status \in Terminal

\* C6: the status of a task only moves pending -> processing -> terminal,
\* and a terminal status never changes again.
C6_StatusMachine == [][LegalStatusStep]_vars

\* C7: no thread other than the worker driving the task ever assigns a
\* field of the task.
C7_SingleWriter == taskWriters \subseteq {"worker"}

\* C8: when the worker thread of a task has ended, the task has a terminal
\* status.
C8_WorkerEndsTerminal ==
    pc \in {"done", "dead"} => task.status \in Terminal

\* C9: when _tiff_to_pdf has returned, no _temp_page_{index}.jpg is left in
\* the output directory.
C9_TempPagesRemoved ==
    (pc = "groupret" /\ KindOf(hname) = "tiffmerge") =>
        \A p \in disk : ~IsTempPage(p)

\* C10: when a merging handler that reads its sources has returned and a
\* source file of its group could not be decoded, the handler returns no
\* success path and at least one failure.
C10_MergeFailureIsFatal ==
    (/\ pc = "groupret"
     /\ KindOf(hname) \in {"merge", "tiffmerge"}
     /\ \E i \in 1..Len(hfiles) : hfiles[i].failAt # 0) =>
        /\ h_success = <<>>
        /\ h_failed # <<>>

PerFileKinds == {"flat", "pdfpages", "tiffpages"}

\* Whether the per-file handler h meets a processing error on file f, and
\* the outputs it returns for f when f is the only file it is given.
FailsIn(f, h) ==
    \/ CbRaises
    \/ IF KindOf(h) = "flat" THEN f.failAt = 1 ELSE f.failAt # 0

OutputsAlone(f, h) ==
    IF CbRaises THEN <<>>
    ELSE IF KindOf(h) = "flat" \/ (KindOf(h) = "tiffpages" /\ f.pages = 1)
    THEN IF f.failAt = 1 THEN <<>> ELSE <<SuccEntry(FlatOut(f, h), {f.id})>>
    ELSE [p \in 1..(IF f.failAt = 0 THEN f.pages ELSE f.failAt - 1) |->
             SuccEntry(PageOut(f, p, h), {f.id})]

SuccessesFrom(es, i) == SelectSeq(es, LAMBDA e : e.src = {i})
FailuresFrom(es, i) == SelectSeq(es, LAMBDA e : e.src = i)

\* C11: when a per-file handler has returned without cancellation, every
\* file of its group that met a processing error has exactly one failure
\* entry, carrying that file's path, every other file has none, and the
\* outputs returned for each file are the ones the handler returns for that
\* file alone, whatever happened to the files before it.
C11_FailureIsolated ==
    (pc = "groupret" /\ KindOf(hname) \in PerFileKinds /\ ~cancel_event) =>
        \A j \in 1..Len(hfiles) :
            LET f == hfiles[j]
            IN  /\ FailuresFrom(h_failed, f.id) =
                       IF FailsIn(f, hname) THEN <<FailEntry(PathOf(f), f.id)>>
                       ELSE <<>>
                /\ SuccessesFrom(h_success, f.id) = OutputsAlone(f, hname)

\* A handler returned after its first file failed and its second file was
\* converted.
C11_Witness ==
    /\ pc = "groupret" /\ KindOf(hname) \in PerFileKinds /\ ~cancel_event
    /\ Len(hfiles) = 2
    /\ FailsIn(hfiles[1], hname) /\ ~FailsIn(hfiles[2], hname)
    /\ Len(h_failed) = 1 /\ h_failed[1].path = PathOf(hfiles[1])
    /\ h_success # <<>>

\* The current group has been through the dispatcher.
Dispatched == pc \in {"file", "page", "merge", "mergefile", "groupret"}

FormatPairs == (Formats \cup {"unknown"}) \X (Formats \cup {"unknown"})

\* C12: the dispatcher enters a handler for the pair (source format of the
\* group, target format) exactly when the pair is a key of
\* CONVERSION_COMBINATIONS; the handler of a declared pair is the handler of
\* no other pair; and for equal formats and for any pair with the unknown
\* format the dispatcher returns without entering a handler.
C12_DispatchMatchesTable ==
    Dispatched =>
        LET src == format_type(hfiles[1].ext)
        IN  /\ (hname # "none") <=> (<<src, target>> \in CONVERSION_COMBINATIONS)
            /\ hname # "none" =>
                   \A p \in FormatPairs \ {<<src, target>>} :
                       HandlerOf(p[1], p[2]) # hname
            /\ (src = target \/ src = "unknown" \/ target = "unknown") =>
                   hname = "none"
            /\ hname = "none" => pc = "groupret" /\ h_success = <<>> /\ h_failed = <<>>

\* The last declared pair has reached its handler's file loop.
C12_Witness ==
    /\ pc = "file"
    /\ format_type(hfiles[1].ext) = "svg" /\ target = "tiff"
    /\ hname = "_svg_to_tiff"

MergeKinds == {"merge", "tiffmerge", "svgmerge"}

\* The pages of the PDF a merging handler has written, by source file: the
\* list handed to img2pdf.convert; _svg_to_pdf writes an empty file.
MergedPages == IF KindOf(hname) = "svgmerge" THEN <<>> ELSE image_paths

\* C13: when a merging handler has returned from an error-free run (every
\* file of the group decodes, the output is written, the callback is
\* callable; for _svg_to_pdf, the one merging handler that polls the
\* event, no cancellation), it returns exactly one success path, named
\* output_{timestamp}.pdf and made of all the files of the group, no
\* failure, and the pages of the output are in ascending order of source
\* file name, whatever the order of submission.
C13_MergeOneOutput ==
    (/\ pc = "groupret" /\ KindOf(hname) \in MergeKinds
     /\ ~CbRaises /\ ~mergeFault
     /\ KindOf(hname) = "svgmerge" => ~cancel_event
     /\ \A i \in 1..Len(hfiles) : hfiles[i].failAt = 0) =>
        /\ Len(h_success) = 1
        /\ h_success[1].path = MergedOut(clock)
        /\ h_success[1].src = { groups[gi][i].id : i \in 1..Len(groups[gi]) }
        /\ h_failed = <<>>
        /\ \A i, j \in 1..Len(MergedPages) :
               i < j => ~NameLess(files[MergedPages[j].src], files[MergedPages[i].src])

\* A merging handler returned one output for a group submitted as b, a.
C13_Witness ==
    /\ pc = "groupret" /\ KindOf(hname) \in {"merge", "tiffmerge"}
    /\ Len(groups[gi]) = 2
    /\ groups[gi][1].base = "b" /\ groups[gi][2].base = "a"
    /\ Len(h_success) = 1 /\ h_failed = <<>>
    /\ files[MergedPages[1].src].base = "a"

\* C14: when convert has returned for a batch of files with pairwise
\* distinct paths, no path occurs twice in successPaths, that is, no output
\* path was written more than once.
C14_NoOutputWrittenTwice ==
    (/\ pc = "returned"
     /\ \A i, j \in 1..Len(files) : i # j => PathOf(files[i]) # PathOf(files[j])) =>
        \A k, l \in 1..Len(success_files) :
            k # l => success_files[k].path # success_files[l].path

\* C15: when the per-file handler of the first group has returned from an
\* uncancelled, error-free run, the percents it passed to the callback are
\* non-decreasing and the last of them is 100.
C15_ProgressReachesHundred ==
    (/\ pc = "groupret" /\ gi = 1 /\ KindOf(hname) \in PerFileKinds
     /\ ~cancel_event /\ ~CbRaises /\ h_failed = <<>>) =>
        /\ calls # <<>>
        /\ calls[Len(calls)] = 100
        /\ \A k \in 1..(Len(calls) - 1) : calls[k] <= calls[k + 1]

\* C16: when the merging handler of the first group has returned a success
\* path, it has called the progress callback exactly twice: first with 0,
\* then with 100.
C16_MergeReportsTwice ==
    (/\ pc = "groupret" /\ gi = 1 /\ KindOf(hname) \in MergeKinds
     /\ h_success # <<>>) =>
        calls = <<0, 100>>

\* _tiff_to_pdf returned its output for a group of two files.
C16_Witness ==
    /\ pc = "groupret" /\ gi = 1 /\ hname = "_tiff_to_pdf"
    /\ Len(hfiles) = 2
    /\ Len(h_success) = 1
    /\ calls = <<0, 100>>

\* C17: every percent a handler has passed to the progress callback is an
\* integer from 0 to 100, and so is the progress field of the task.
C17_PercentInRange ==
    /\ \A k \in 1..Len(calls) : calls[k] \in 0..100
    /\ task.progress \in 0..100

\* The callback of the task stored the percent of the first of two pages.
C17_Witness ==
    /\ pc = "page"
    /\ calls # <<>> /\ calls[Len(calls)] = 50
    /\ task.progress = 50
    /\ task.status = "processing"

\* A step of a per-file handler taken with the event set starts no unit:
\* it writes nothing, reports nothing and records neither a success nor a
\* failure; and the return of a cancelled per-file handler hands all it
\* had written to convert.
CancelStopsUnits ==
    /\ (cancel_event /\ pc \in {"file", "page"}) =>
           /\ h_success' = h_success
           /\ h_failed' = h_failed
           /\ disk' = disk
           /\ calls' = calls
           /\ pc' \in {"file", "groupret"}
    /\ (cancel_event /\ pc = "groupret" /\ KindOf(hname) \in PerFileKinds) =>
           /\ success_files' = success_files \o h_success
           /\ failed_files' = failed_files \o h_failed

\* C18: in every per-file handler the event is checked before each file and
\* each page: once it is set, no further unit is started, nothing more is
\* written, no failure is added for the remaining units, and what was
\* written before stays in the returned successPaths.
C18_CancelBeforeEachUnit == [][CancelStopsUnits]_vars

\* A PDF handler of an error-free run returned, cancelled, with some but
\* not all of its pages written and no failure.
C18_Witness ==
    /\ pc = "groupret" /\ KindOf(hname) = "pdfpages"
    /\ cancel_event /\ ~CbRaises
    /\ \A i \in 1..Len(hfiles) : hfiles[i].failAt = 0
    /\ h_success # <<>>
    /\ Len(h_success) < SumPages(hfiles)
    /\ h_failed = <<>>

\* A step taken when a group's handler has returned and the event is set
\* ends convert with the results of the groups so far; no later group is
\* dispatched.
CancelEndsGroups ==
    (cancel_event /\ pc = "groupret") =>
        /\ pc' = "returned"
        /\ gi' = gi
        /\ success_files' = success_files \o h_success
        /\ failed_files' = failed_files \o h_failed
        /\ UNCHANGED <<hname, hfiles, h_success, h_failed, disk, calls>>

\* C19: in a mixed-format batch convert checks the event after each group:
\* if it is set when a group's handler has returned, no handler of a later
\* group is invoked and convert returns the results concatenated so far.
C19_CancelBetweenGroups == [][CancelEndsGroups]_vars

\* convert returned, cancelled, after the first of two groups, with the
\* outputs of that group.
C19_Witness ==
    /\ pc = "returned" /\ cancel_event
    /\ Len(groups) = 2 /\ gi = 1
    /\ success_files = h_success /\ success_files # <<>>

\* The handler of group g, and the group an input file belongs to.
GroupHandler(g) == HandlerOf(format_type(g[1].ext), target)
GroupIds(g) == { g[i].id : i \in 1..Len(g) }
GroupOf(id) == CHOOSE n \in 1..Len(groups) : id \in GroupIds(groups[n])

\* Whether the outcome of convert holds what the handler of group g returns.
GroupInOutcome(g) ==
    IF KindOf(GroupHandler(g)) \in PerFileKinds
    THEN \A i \in 1..Len(g) :
             /\ SuccessesFrom(success_files, g[i].id) = OutputsAlone(g[i], GroupHandler(g))
             /\ FailuresFrom(failed_files, g[i].id) =
                    IF FailsIn(g[i], GroupHandler(g))
                    THEN <<FailEntry(PathOf(g[i]), g[i].id)>> ELSE <<>>
    ELSE \/ \E k \in 1..Len(success_files) :
                /\ success_files[k].src # {}
                /\ success_files[k].src \subseteq GroupIds(g)
         \/ \E k \in 1..Len(failed_files) :
                failed_files[k].src \in GroupIds(g) \cup {0}

\* C20: when convert has returned, uncancelled, for a mixed-format batch
\* with a group whose pair has no handler, every group was dispatched, the
\* successes and failures of every group that has a handler are in the
\* outcome, and the successes are in group order.
C20_UnsupportedGroupSkipped ==
    (/\ pc = "returned" /\ ~cancel_event /\ Len(groups) > 1
     /\ \E n \in 1..Len(groups) : GroupHandler(groups[n]) = "none") =>
        /\ gi = Len(groups)
        /\ \A n \in 1..Len(groups) :
               GroupHandler(groups[n]) # "none" => GroupInOutcome(groups[n])
        /\ \A k, l \in 1..Len(success_files) :
               k < l => \A a \in success_files[k].src, b \in success_files[l].src :
                           GroupOf(a) <= GroupOf(b)

\* convert returned the outputs of the second group after a first group
\* without a handler.
C20_Witness ==
    /\ pc = "returned" /\ ~cancel_event
    /\ Len(groups) = 2
    /\ GroupHandler(groups[1]) = "none"
    /\ GroupHandler(groups[2]) # "none"
    /\ success_files # <<>>

\* Whether the body of the merging handler of group g raises outside the
\* staging loop: at the first callback, in img2pdf.convert, or in the write
\* of the output (which _tiff_to_pdf only reaches with a staged page).
MergeRaises(g) ==
    \/ CbRaises
    \/ /\ KindOf(GroupHandler(g)) = "merge"
        /\ (mergeFault \/ \E i \in 1..Len(g) : g[i].failAt # 0)
    \/ /\ KindOf(GroupHandler(g)) = "tiffmerge"
        /\ mergeFault
        /\ \E i \in 1..Len(g) : g[i].failAt # 1
    \/ KindOf(GroupHandler(g)) = "svgmerge" /\ mergeFault

\* Every error met while group g was converted has its entry in failures.
ErrorsRecorded(g) ==
    LET h == GroupHandler(g)
    IN  /\ KindOf(h) \in PerFileKinds =>
               \A i \in 1..Len(g) :
                   FailsIn(g[i], h) => FailuresFrom(failed_files, g[i].id) # <<>>
        /\ (KindOf(h) = "tiffmerge" /\ ~CbRaises) =>
               \A i \in 1..Len(g) :
                   g[i].failAt # 0 => FailuresFrom(failed_files, g[i].id) # <<>>

\* C21: convert never raises: no error of a decode, encode, write or
\* callback call leaves a handler, convert can always take its next step
\* until it has returned, and when it has returned from an uncancelled run
\* every error that was met has an entry in failures, one entry without a
\* path for each merging handler whose body raised.
C21_ConvertNeverRaises ==
    /\ pc # "raised"
    /\ (pc = "idle" \/ InProgress) => ENABLED EngineNext
    /\ (pc = "returned" /\ ~cancel_event) =>
           /\ \A n \in 1..Len(groups) : ErrorsRecorded(groups[n])
           /\ Cardinality({ k \in 1..Len(failed_files) : failed_files[k].path = NoPath }) =
                  Cardinality({ n \in 1..Len(groups) :
                                  /\ KindOf(GroupHandler(groups[n])) \in MergeKinds
                                  /\ MergeRaises(groups[n]) })

\* convert returned after the write of one merged output raised and a
\* frame of a TIFF of the other group could not be saved.
C21_Witness ==
    /\ pc = "returned" /\ ~cancel_event /\ ~CbRaises
    /\ \E k \in 1..Len(failed_files) : failed_files[k].path = NoPath
    /\ \E k \in 1..Len(failed_files) : failed_files[k].path # NoPath

\* C22: once convert was called with an empty file list it has returned,
\* with no success and no failure, and no handler was entered, no progress
\* reported and nothing written.
C22_EmptyBatch ==
    (files = <<>> /\ pc # "idle") =>
        /\ pc = "returned"
        /\ success_files = <<>> /\ failed_files = <<>>
        /\ groups = <<>> /\ hname = "none"
        /\ calls = <<>>
        /\ disk = {}

\* convert has returned for an empty file list.
C22_Witness == files = <<>> /\ pc = "returned"

\* The extensions of a target format (SUPPORTED_FORMATS).
TargetExts(fmt) ==
    IF fmt = "pdf" THEN {".pdf"}
    ELSE IF fmt = "jpg" THEN {".jpg", ".jpeg"}
    ELSE IF fmt = "png" THEN {".png"}
    ELSE IF fmt = "tiff" THEN {".tif", ".tiff"}
    ELSE IF fmt = "svg" THEN {".svg"}
    ELSE {}

\* C23: when a per-file handler has returned from an uncancelled run with a
\* callable callback, the success paths of every file that met no error
\* are {base}_1, ..., {base}_n for a source of n > 1 pages and {base} alone
\* for a single-page or flat source, each with an extension of the target
\* format.
C23_OutputNames ==
    (/\ pc = "groupret" /\ KindOf(hname) \in PerFileKinds
     /\ ~cancel_event /\ ~CbRaises) =>
        \A j \in 1..Len(hfiles) :
            LET f == hfiles[j]
                outs == SuccessesFrom(h_success, f.id)
            IN  f.failAt = 0 =>
                   /\ Len(outs) = f.pages
                   /\ \A n \in 1..Len(outs) :
                          /\ outs[n].path[1] = f.base
                          /\ outs[n].path[2] = IF f.pages > 1 THEN n ELSE 0
                          /\ outs[n].path[3] \in TargetExts(target)

\* The input file an output of a per-file handler was made from.
SourceOf(e) == CHOOSE i \in e.src : TRUE

\* C24: in the success paths of a per-file handler the outputs follow the
\* order in which the files of the group were submitted, and the outputs of
\* one multi-page source are in ascending page order.
C24_OutputOrder ==
    (Dispatched /\ KindOf(hname) \in PerFileKinds) =>
        /\ hfiles = groups[gi]
        /\ \A k, l \in 1..Len(h_success) :
               k < l =>
                   \/ SourceOf(h_success[k]) < SourceOf(h_success[l])
                   \/ /\ SourceOf(h_success[k]) = SourceOf(h_success[l])
                      /\ h_success[k].path[2] < h_success[l].path[2]

\* A handler returned the two pages of b and then the output of a, the
\* files having been submitted as b, a.
C24_Witness ==
    /\ pc = "groupret" /\ KindOf(hname) \in {"pdfpages", "tiffpages"}
    /\ Len(hfiles) = 2
    /\ hfiles[1].base = "b" /\ hfiles[1].pages = 2
    /\ hfiles[2].base = "a"
    /\ Len(h_success) >= 3
    /\ h_success[1].path[1] = "b" /\ h_success[1].path[2] = 1
    /\ h_success[2].path[1] = "b" /\ h_success[2].path[2] = 2
    /\ h_success[3].path[1] = "a"

\* C25: the groups _group_files_by_format returns are a partition of its
\* input: every input file is in exactly one group, the one of its format,
\* no group is empty or repeats a format, no file is added, and the files
\* of a group are in their order of submission.
C25_GroupsPartition ==
    fop = "grouped" =>
        /\ \A i \in 1..Len(files) :
               Cardinality({ <<n, k>> \in (1..Len(groups)) \X (1..Len(files)) :
                               k <= Len(groups[n]) /\ groups[n][k] = files[i] }) = 1
        /\ \A n \in 1..Len(groups) :
               /\ groups[n] # <<>>
               /\ \A k \in 1..Len(groups[n]) :
                      /\ groups[n][k] \in SeqRange(files)
                      /\ format_type(groups[n][k].ext) = format_type(groups[n][1].ext)
               /\ \A k, l \in 1..Len(groups[n]) :
                      k < l => groups[n][k].id < groups[n][l].id
        /\ \A n, m \in 1..Len(groups) :
               n # m => format_type(groups[n][1].ext) # format_type(groups[m][1].ext)

\* a.jpg, b.png, b.jpeg were grouped as (a.jpg, b.jpeg), (b.png).
C25_Witness ==
    /\ fop = "grouped"
    /\ Len(files) = 3
    /\ Len(groups) = 2
    /\ Len(groups[1]) = 2
    /\ groups[1][1] = files[1] /\ groups[1][2] = files[3]
    /\ groups[1][1].ext = ".jpg" /\ groups[1][2].ext = ".jpeg"
    /\ groups[2] = <<files[2]>>

\* C26: every dpi handed to the rasterizer is within MIN_DPI..MAX_DPI.
C26_DpiClamped ==
    \A d \in raster_dpi : MIN_DPI <= d /\ d <= MAX_DPI

\* C27: when a codec is missing the engine's constructor raises, so convert
\* never starts on such an engine: no progress call, no outcome, no output.
C27_FailFast ==
    ~depsOk =>
        /\ pc \in {"spawned", "dead"}
        /\ calls = <<>>
        /\ success_files = <<>>
        /\ failed_files = <<>>
        /\ raster_dpi = {}

C27_Witness ==
    ~depsOk /\ pc = "dead" /\ files # <<>>

\* The format the documentation assigns to an extension spelled in lower case.
FormatTable(e) ==
    CASE e = ".pdf" -> "pdf"
      [] e \in {".jpg", ".jpeg"} -> "jpg"
      [] e = ".png" -> "png"
      [] e \in {".tif", ".tiff"} -> "tiff"
      [] e = ".svg" -> "svg"
      [] OTHER -> "unknown"

\* C28: every read of format_type from a FileInfo gives the format of the
\* lower-cased extension, whatever its spelling, and validate_file, for a
\* regular file within the size limit, accepts exactly when that format is
\* not unknown.
C28_FormatOfExtension ==
    fop = "info" =>
        /\ \A i \in DOMAIN fres.reads : fres.reads[i] = FormatTable(farg.canon)
        /\ (fres.valid # <<>> /\ farg.state = "ok") =>
               (fres.valid[1] <=> FormatTable(farg.canon) # "unknown")

C28_Witness ==
    /\ fop = "info"
    /\ Len(fres.reads) = MaxReads
    /\ fres.valid = <<TRUE>>
    /\ farg.canon = ".jpeg"
    /\ Join(farg.raw) # farg.canon

\* C29: can_convert answers true exactly for the pairs of
\* CONVERSION_COMBINATIONS, and get_supported_target_formats lists exactly
\* the targets for which can_convert answers true.
C29_CanConvertMatchesHandlers ==
    fop = "asked" =>
        /\ fres.can <=>
             <<farg.source_format, farg.target_format>> \in CONVERSION_COMBINATIONS
        /\ { fres.targets[i] : i \in DOMAIN fres.targets } =
             { d \in Targets : can_convert(farg.source_format, d) }

\* convert has returned from a batch without decoding or merging fault, and
\* nobody asked for cancellation.
CleanRun ==
    /\ pc = "returned"
    /\ ~cancelRequested
    /\ ~mergeFault
    /\ \A i \in DOMAIN files : files[i].failAt = 0

\* With a callback that does nothing a clean run reports no failure.
NoopCleanRunHasNoFailure ==
    (CleanRun /\ cbMode = "noop") => failed_files = <<>>

\* C30: convert without a progress callback returns the successes and
\* failures of the same call with a callback that does nothing; for a clean
\* run that is an outcome without failures.
C30_NoneLikeNoop ==
    (CleanRun /\ cbMode = "none") => failed_files = <<>>

\* C31: every entry of the failures list convert returns names, as its
\* source path, the path of one of the files of the request.
C31_FailurePathIsInput ==
    pc = "returned" =>
        \A k \in DOMAIN failed_files :
            \E i \in DOMAIN files : failed_files[k].path = PathOf(files[i])

\* C32: a finished status poll that read the status "completed" also read
\* the final output_files of the task, the paths convert returned.
C32_CompletedPollSeesOutputs ==
    (pollpc = "idle" /\ poll.status = "completed") =>
        poll.output_files = [i \in 1..Len(success_files) |-> success_files[i].path]

C32_Witness ==
    /\ pollpc = "idle"
    /\ poll.status = "completed"
    /\ poll.output_files # <<>>

\* The larger and the smaller of two integers.
MaxOf(a, b) == IF a >= b THEN a ELSE b
MinOf(a, b) == IF a <= b THEN a ELSE b

\* C36: validate_dpi(d) returns min(max(d, MIN_DPI), MAX_DPI) and reports a
\* modification exactly when d is outside MIN_DPI..MAX_DPI; applied to its
\* own result it returns that result unmodified.
C36_ValidateDpiClamps ==
    /\ fop \in {"clamped", "reclamped"} =>
         fres[1] = << MinOf(MaxOf(farg.dpi, MIN_DPI), MAX_DPI),
                      farg.dpi \notin MIN_DPI..MAX_DPI >>
    /\ fop = "reclamped" => fres[2] = <<fres[1][1], FALSE>>

C36_Witness ==
    /\ fop = "reclamped"
    /\ farg.dpi > MAX_DPI
    /\ fres[2][1] = MAX_DPI

\* C37: within one TIFF -> PDF merge the staged pages carry strictly
\* ascending indices in the order they are merged, across all source files,
\* so no two of them share an index.
C37_TempIndexRuns ==
    (KindOf(hname) = "tiffmerge" /\ pc \in {"mergefile", "groupret"} /\ ~CbRaises) =>
        \A i \in DOMAIN image_paths : \A j \in DOMAIN image_paths :
            i < j => /\ IsTempPage(image_paths[i].path)
                     /\ IsTempPage(image_paths[j].path)
                     /\ image_paths[i].path[2] < image_paths[j].path[2]

C37_Witness ==
    /\ KindOf(hname) = "tiffmerge"
    /\ pc = "groupret"
    /\ h_success # <<>>
    /\ Len(image_paths) > MaxPages
    /\ Cardinality({ image_paths[i].src : i \in DOMAIN image_paths }) > 1

\* The ConversionThreads whose run has not returned and that were not
\* terminated.
RunningThreads == { t \in DOMAIN qthreads : IsRunning(qthreads[t]) }

\* C33: in the desktop UI at most one conversion thread runs at a time, and
\* while one runs the start button is disabled.
C33_OneConversionAtATime ==
    /\ Cardinality(RunningThreads) <= 1
    /\ RunningThreads # {} => ~window.btn_start

\* a is an initial segment of b.
IsPrefix(a, b) == Len(a) <= Len(b) /\ a = SubSeq(b, 1, Len(a))

\* C34: what a ConversionThread converts is the file list as it was when
\* _start_conversion ran: a per-file handler converts its files in that
\* order and, when it has returned, all of them; a merging handler merges
\* that list sorted by name.
C34_WorkerListFrozen ==
    \A t \in DOMAIN qthreads :
        LET th == qthreads[t]
        IN  /\ th.kind = "flat" => IsPrefix(th.converted, th.files_at_start)
            /\ (th.kind = "flat" /\ th.state \in {"emitted", "handled"}) =>
                   th.converted = th.files_at_start
            /\ th.kind = "merge" => th.converted = SortedByName(th.files_at_start)

\* C35: MainWindow.files and the list widget hold the same files in the
\* same order, no path is listed twice, and every listed path passes
\* validate_file.
C35_FileListConsistent ==
    pc = "gui" =>
        /\ window.files = window.items
        /\ \A i \in DOMAIN window.files : \A j \in DOMAIN window.files :
               window.files[i] = window.files[j] => i = j
        /\ \A i \in DOMAIN window.files : validate_file(window.files[i])

C35_Witness ==
    /\ pc = "gui"
    /\ Len(window.files) = 2
    /\ window.files[1].base = "b"
    /\ qthreads # <<>>

=============================================================================
